---------------------------- MODULE Spec2Model ----------------------------
(***************************************************************************)
(* Model of the Groth16 seal adapter and verifier of bonsai/groth16        *)
(* (src/bonsai/groth16/src/lib.rs).                                        *)
(*                                                                         *)
(* Byte buffers are tuples over 0..255 with the widths of the code (32     *)
(* byte coordinates, 64/128 byte points).  Strings are tuples of one       *)
(* character strings.  A 256-bit integer is its 32-byte big-endian tuple,   *)
(* so no value ever exceeds the range of the model checker's integers.     *)
(*                                                                         *)
(* The pairing library (ark-bn254 / ark-groth16 / ark-serialize) is an     *)
(* external collaborator.  It is modelled by a table of BN254 points       *)
(* (O, G, 2G, 3G, 4G in G1 and in G2, with their true coordinates), the    *)
(* uncompressed wire format of ark-serialize 0.4, and group arithmetic on  *)
(* the table indices; scalars act on a table point modulo the table size.  *)
(***************************************************************************)
EXTENDS Integers, Sequences, FiniteSets, TLC

VARIABLES
    input,      \* input[i]: what the constructor of instance i was called with
    outcome,    \* outcome[i]: "none" before construction, "ok", or the error
    inst,       \* inst[i]: the three buffers of Groth16 instance i
    handed,     \* handed[i]: what the constructor handed to the library
    verified,   \* verified[c]: result of caller c's latest verify() on instance 1
    digested,   \* digested[c]: result of caller c's latest digest() on instance 1
    first,      \* first verify() and digest() results on instance 1, and the
                \* instance as its constructor returned it
    sd_in,      \* digest given to split_digest (function-level specification)
    sd_out      \* what split_digest returned for sd_in

vars == << input, outcome, inst, handed, verified, digested, first,
           sd_in, sd_out >>

-----------------------------------------------------------------------------
(* Curve and field parameters of BN254 (big-endian) *)

FqModulus ==
    << 48, 100, 78, 114, 225, 49, 160, 41, 184, 80, 69, 182, 129, 129, 88, 93,
       151, 129, 106, 145, 104, 113, 202, 141, 60, 32, 140, 22, 216, 124, 253, 71 >>

FqHalf ==
    << 24, 50, 39, 57, 112, 152, 208, 20, 220, 40, 34, 219, 64, 192, 172, 46,
       203, 192, 181, 72, 180, 56, 229, 70, 158, 16, 70, 11, 108, 62, 126, 163 >>

FrModulus ==
    << 48, 100, 78, 114, 225, 49, 160, 41, 184, 80, 69, 182, 129, 129, 88, 93,
       40, 51, 232, 72, 121, 185, 112, 145, 67, 225, 245, 147, 240, 0, 0, 1 >>

G1x1 ==
    << 0, 0, 0, 0, 0, 0, 0, 0, 0, 0, 0, 0, 0, 0, 0, 0,
       0, 0, 0, 0, 0, 0, 0, 0, 0, 0, 0, 0, 0, 0, 0, 1 >>

G1y1 ==
    << 0, 0, 0, 0, 0, 0, 0, 0, 0, 0, 0, 0, 0, 0, 0, 0,
       0, 0, 0, 0, 0, 0, 0, 0, 0, 0, 0, 0, 0, 0, 0, 2 >>

G1x2 ==
    << 3, 6, 68, 231, 46, 19, 26, 2, 155, 133, 4, 91, 104, 24, 21, 133,
       217, 120, 22, 169, 22, 135, 28, 168, 211, 194, 8, 193, 109, 135, 207, 211 >>

G1y2 ==
    << 21, 237, 115, 140, 14, 10, 124, 146, 231, 132, 95, 150, 178, 174, 156, 10,
       104, 166, 164, 73, 227, 83, 143, 199, 255, 62, 191, 122, 90, 24, 162, 196 >>

G1x3 ==
    << 7, 105, 191, 154, 197, 107, 234, 63, 244, 2, 50, 188, 177, 182, 189, 21,
       147, 21, 216, 71, 21, 184, 230, 121, 242, 211, 85, 150, 25, 21, 171, 240 >>

G1y3 ==
    << 42, 183, 153, 190, 224, 72, 148, 41, 85, 79, 219, 124, 141, 8, 100, 117,
       49, 158, 99, 180, 11, 156, 91, 87, 205, 241, 255, 61, 217, 254, 34, 97 >>

G1x4 ==
    << 6, 167, 182, 74, 248, 244, 20, 188, 190, 239, 69, 91, 29, 165, 32, 140,
       155, 89, 43, 131, 238, 101, 153, 130, 76, 170, 109, 46, 233, 20, 26, 118 >>

G1y4 ==
    << 8, 231, 78, 67, 140, 238, 49, 172, 16, 76, 229, 155, 148, 228, 95, 233,
       138, 151, 216, 248, 166, 231, 86, 100, 206, 136, 239, 90, 65, 231, 47, 188 >>

G2x0_1 ==
    << 24, 0, 222, 239, 18, 31, 30, 118, 66, 106, 0, 102, 94, 92, 68, 121,
       103, 67, 34, 212, 247, 94, 218, 221, 70, 222, 189, 92, 217, 146, 246, 237 >>

G2x1_1 ==
    << 25, 142, 147, 147, 146, 13, 72, 58, 114, 96, 191, 183, 49, 251, 93, 37,
       241, 170, 73, 51, 53, 169, 231, 18, 151, 228, 133, 183, 174, 243, 18, 194 >>

G2y0_1 ==
    << 18, 200, 94, 165, 219, 140, 109, 235, 74, 171, 113, 128, 141, 203, 64, 143,
       227, 209, 231, 105, 12, 67, 211, 123, 76, 230, 204, 1, 102, 250, 125, 170 >>

G2y1_1 ==
    << 9, 6, 137, 208, 88, 95, 240, 117, 236, 158, 153, 173, 105, 12, 51, 149,
       188, 75, 49, 51, 112, 179, 142, 243, 85, 172, 218, 220, 209, 34, 151, 91 >>

G2x0_2 ==
    << 39, 220, 114, 52, 253, 17, 211, 232, 195, 108, 89, 39, 124, 62, 111, 20,
       157, 92, 211, 207, 169, 166, 42, 238, 73, 248, 19, 9, 98, 180, 179, 185 >>

G2x1_2 ==
    << 32, 62, 32, 93, 180, 241, 155, 55, 182, 1, 33, 184, 58, 115, 51, 112,
       109, 184, 100, 49, 198, 216, 53, 132, 153, 87, 237, 140, 57, 40, 173, 121 >>

G2y0_2 ==
    << 4, 187, 83, 184, 151, 126, 95, 146, 160, 188, 55, 39, 66, 196, 131, 9,
       68, 165, 155, 79, 230, 177, 192, 70, 110, 42, 109, 173, 18, 43, 93, 46 >>

G2y1_2 ==
    << 25, 94, 138, 165, 183, 130, 116, 99, 114, 43, 140, 21, 57, 49, 87, 157,
       53, 5, 86, 107, 78, 223, 72, 212, 152, 225, 133, 240, 80, 157, 225, 82 >>

G2x0_3 ==
    << 6, 6, 78, 120, 77, 177, 14, 144, 81, 229, 40, 38, 225, 146, 113, 94,
       141, 126, 71, 140, 176, 154, 94, 0, 18, 222, 250, 6, 148, 251, 199, 245 >>

G2x1_3 ==
    << 16, 20, 119, 47, 87, 187, 151, 66, 115, 81, 145, 205, 93, 207, 228, 235,
       188, 4, 21, 107, 104, 120, 160, 167, 201, 130, 79, 50, 255, 182, 110, 133 >>

G2y0_3 ==
    << 5, 142, 29, 86, 129, 181, 185, 224, 7, 75, 15, 156, 141, 44, 104, 160,
       105, 185, 32, 215, 69, 33, 231, 151, 101, 3, 109, 87, 102, 108, 85, 151 >>

G2y1_3 ==
    << 2, 30, 35, 53, 243, 53, 75, 183, 146, 47, 252, 194, 243, 141, 51, 35,
       221, 148, 83, 172, 73, 181, 84, 65, 69, 42, 234, 202, 20, 119, 17, 178 >>

G2x0_4 ==
    << 41, 221, 219, 248, 111, 106, 47, 71, 195, 128, 99, 168, 80, 204, 196, 66,
       19, 21, 112, 229, 8, 76, 69, 253, 119, 9, 180, 221, 180, 54, 226, 44 >>

G2x1_4 ==
    << 41, 6, 104, 71, 158, 86, 122, 213, 162, 72, 90, 147, 249, 118, 215, 132,
       32, 111, 102, 246, 144, 161, 140, 63, 90, 109, 133, 194, 149, 113, 35, 111 >>

G2y0_4 ==
    << 41, 159, 10, 247, 247, 43, 58, 147, 202, 124, 60, 195, 36, 67, 200, 59,
       5, 208, 65, 189, 20, 39, 110, 90, 220, 162, 84, 103, 40, 188, 55, 247 >>

G2y1_4 ==
    << 30, 116, 164, 191, 81, 156, 38, 122, 91, 22, 67, 27, 36, 19, 176, 4,
       2, 212, 211, 182, 112, 201, 65, 75, 142, 255, 245, 190, 230, 97, 168, 246 >>

ALLOWED_IDS_ROOT ==
    << "b", "3", "2", "a", "0", "5", "6", "7", "a", "7", "9", "9", "1", "7", "4", "e",
       "9", "f", "4", "9", "d", "c", "3", "d", "8", "b", "2", "d", "e", "4", "6", "8",
       "3", "1", "9", "2", "d", "3", "4", "5", "0", "4", "5", "b", "5", "8", "2", "8",
       "a", "0", "e", "0", "4", "5", "1", "6", "4", "f", "6", "8", "0", "2", "3", "8" >>

StrG2x0Dec ==
    << "1", "0", "8", "5", "7", "0", "4", "6", "9", "9", "9", "0", "2", "3", "0", "5",
       "7", "1", "3", "5", "9", "4", "4", "5", "7", "0", "7", "6", "2", "2", "3", "2",
       "8", "2", "9", "4", "8", "1", "3", "7", "0", "7", "5", "6", "3", "5", "9", "5",
       "7", "8", "5", "1", "8", "0", "8", "6", "9", "9", "0", "5", "1", "9", "9", "9",
       "3", "2", "8", "5", "6", "5", "5", "8", "5", "2", "7", "8", "1" >>

StrG2x1Hex ==
    << "0", "x", "1", "9", "8", "e", "9", "3", "9", "3", "9", "2", "0", "d", "4", "8",
       "3", "a", "7", "2", "6", "0", "b", "f", "b", "7", "3", "1", "f", "b", "5", "d",
       "2", "5", "f", "1", "a", "a", "4", "9", "3", "3", "3", "5", "a", "9", "e", "7",
       "1", "2", "9", "7", "e", "4", "8", "5", "b", "7", "a", "e", "f", "3", "1", "2",
       "c", "2" >>

StrG2y0Hex ==
    << "0", "x", "1", "2", "c", "8", "5", "e", "a", "5", "d", "b", "8", "c", "6", "d",
       "e", "b", "4", "a", "a", "b", "7", "1", "8", "0", "8", "d", "c", "b", "4", "0",
       "8", "f", "e", "3", "d", "1", "e", "7", "6", "9", "0", "c", "4", "3", "d", "3",
       "7", "b", "4", "c", "e", "6", "c", "c", "0", "1", "6", "6", "f", "a", "7", "d",
       "a", "a" >>

StrG2y1Hex ==
    << "0", "x", "9", "0", "6", "8", "9", "d", "0", "5", "8", "5", "f", "f", "0", "7",
       "5", "e", "c", "9", "e", "9", "9", "a", "d", "6", "9", "0", "c", "3", "3", "9",
       "5", "b", "c", "4", "b", "3", "1", "3", "3", "7", "0", "b", "3", "8", "e", "f",
       "3", "5", "5", "a", "c", "d", "a", "d", "c", "d", "1", "2", "2", "9", "7", "5",
       "b" >>

StrG2bx0Hex ==
    << "0", "x", "2", "7", "d", "c", "7", "2", "3", "4", "f", "d", "1", "1", "d", "3",
       "e", "8", "c", "3", "6", "c", "5", "9", "2", "7", "7", "c", "3", "e", "6", "f",
       "1", "4", "9", "d", "5", "c", "d", "3", "c", "f", "a", "9", "a", "6", "2", "a",
       "e", "e", "4", "9", "f", "8", "1", "3", "0", "9", "6", "2", "b", "4", "b", "3",
       "b", "9" >>

StrG2bx1Hex ==
    << "0", "x", "2", "0", "3", "e", "2", "0", "5", "d", "b", "4", "f", "1", "9", "b",
       "3", "7", "b", "6", "0", "1", "2", "1", "b", "8", "3", "a", "7", "3", "3", "3",
       "7", "0", "6", "d", "b", "8", "6", "4", "3", "1", "c", "6", "d", "8", "3", "5",
       "8", "4", "9", "9", "5", "7", "e", "d", "8", "c", "3", "9", "2", "8", "a", "d",
       "7", "9" >>

StrG2by0Hex ==
    << "0", "x", "0", "4", "b", "b", "5", "3", "b", "8", "9", "7", "7", "e", "5", "f",
       "9", "2", "a", "0", "b", "c", "3", "7", "2", "7", "4", "2", "c", "4", "8", "3",
       "0", "9", "4", "4", "a", "5", "9", "b", "4", "f", "e", "6", "b", "1", "c", "0",
       "4", "6", "6", "e", "2", "a", "6", "d", "a", "d", "1", "2", "2", "b", "5", "d",
       "2", "e" >>

StrG2by1Hex ==
    << "0", "x", "1", "9", "5", "e", "8", "a", "a", "5", "b", "7", "8", "2", "7", "4",
       "6", "3", "7", "2", "2", "b", "8", "c", "1", "5", "3", "9", "3", "1", "5", "7",
       "9", "d", "3", "5", "0", "5", "5", "6", "6", "b", "4", "e", "d", "f", "4", "8",
       "d", "4", "9", "8", "e", "1", "8", "5", "f", "0", "5", "0", "9", "d", "e", "1",
       "5", "2" >>

StrTooBigDec ==
    << "1", "1", "5", "7", "9", "2", "0", "8", "9", "2", "3", "7", "3", "1", "6", "1",
       "9", "5", "4", "2", "3", "5", "7", "0", "9", "8", "5", "0", "0", "8", "6", "8",
       "7", "9", "0", "7", "8", "5", "3", "2", "6", "9", "9", "8", "4", "6", "6", "5",
       "6", "4", "0", "5", "6", "4", "0", "3", "9", "4", "5", "7", "5", "8", "4", "0",
       "0", "7", "9", "1", "3", "1", "2", "9", "6", "3", "9", "9", "3", "6" >>

StrMaxDec ==
    << "1", "1", "5", "7", "9", "2", "0", "8", "9", "2", "3", "7", "3", "1", "6", "1",
       "9", "5", "4", "2", "3", "5", "7", "0", "9", "8", "5", "0", "0", "8", "6", "8",
       "7", "9", "0", "7", "8", "5", "3", "2", "6", "9", "9", "8", "4", "6", "6", "5",
       "6", "4", "0", "5", "6", "4", "0", "3", "9", "4", "5", "7", "5", "8", "4", "0",
       "0", "7", "9", "1", "3", "1", "2", "9", "6", "3", "9", "9", "3", "5" >>

StrG1x2Hex ==
    << "0", "x", "3", "0", "6", "4", "4", "e", "7", "2", "e", "1", "3", "1", "a", "0",
       "2", "9", "b", "8", "5", "0", "4", "5", "b", "6", "8", "1", "8", "1", "5", "8",
       "5", "d", "9", "7", "8", "1", "6", "a", "9", "1", "6", "8", "7", "1", "c", "a",
       "8", "d", "3", "c", "2", "0", "8", "c", "1", "6", "d", "8", "7", "c", "f", "d",
       "3" >>

StrG1y2Dec ==
    << "9", "9", "1", "8", "1", "1", "0", "0", "5", "1", "3", "0", "2", "1", "7", "1",
       "5", "8", "5", "0", "8", "0", "4", "0", "2", "6", "0", "3", "3", "1", "9", "7",
       "0", "2", "7", "7", "4", "5", "6", "5", "5", "1", "5", "9", "9", "3", "1", "5",
       "0", "5", "7", "6", "3", "4", "7", "1", "5", "5", "9", "7", "0", "2", "9", "6",
       "0", "1", "1", "1", "1", "8", "1", "2", "5", "7", "6", "4" >>

-----------------------------------------------------------------------------
(* Byte-sequence helpers *)

Byte == 0..255

\* iter().rev().cloned().collect()
Reverse(s) == [i \in 1..Len(s) |-> s[Len(s) + 1 - i]]

Zeros(n) == [i \in 1..n |-> 0]

\* comparison of two equally long big-endian byte tuples
RECURSIVE LtFrom(_, _, _)
LtFrom(a, b, i) ==
    IF i > Len(a) THEN FALSE
    ELSE IF a[i] # b[i] THEN a[i] < b[i]
    ELSE LtFrom(a, b, i + 1)

LtBE(a, b) == LtFrom(a, b, 1)

\* a big-endian byte tuple reduced modulo the small number n
RECURSIVE ModFrom(_, _, _, _)
ModFrom(a, n, i, acc) ==
    IF i > Len(a) THEN acc
    ELSE ModFrom(a, n, i + 1, (acc * 256 + a[i]) % n)

ModBE(a, n) == ModFrom(a, n, 1, 0)

Ok(v) == [ok |-> TRUE, val |-> v, err |-> ""]
Err(e) == [ok |-> FALSE, val |-> << >>, err |-> e]

-----------------------------------------------------------------------------
(* FieldCodec: numeric strings, 256-bit integers, scalar field elements *)

HexLower == << "0", "1", "2", "3", "4", "5", "6", "7",
               "8", "9", "a", "b", "c", "d", "e", "f" >>
HexUpper == << "0", "1", "2", "3", "4", "5", "6", "7",
               "8", "9", "A", "B", "C", "D", "E", "F" >>

\* value of a hexadecimal digit, -1 for any other character
HexVal(ch) ==
    IF \E i \in 1..16 : HexLower[i] = ch
    THEN (CHOOSE i \in 1..16 : HexLower[i] = ch) - 1
    ELSE IF \E i \in 1..16 : HexUpper[i] = ch
    THEN (CHOOSE i \in 1..16 : HexUpper[i] = ch) - 1
    ELSE -1

\* value of a decimal digit, -1 for any other character
DecVal(ch) ==
    IF \E i \in 1..10 : HexLower[i] = ch
    THEN (CHOOSE i \in 1..10 : HexLower[i] = ch) - 1
    ELSE -1

\* hex::encode: two lower-case digits per byte, high nibble first
hex_encode(bytes) ==
    [i \in 1..(2 * Len(bytes)) |->
        IF i % 2 = 1 THEN HexLower[(bytes[(i + 1) \div 2] \div 16) + 1]
                     ELSE HexLower[(bytes[i \div 2] % 16) + 1]]

\* hex decoding of an even number of digits (Digest::from_hex, decode_to_slice)
hex_decode(digits) ==
    [i \in 1..(Len(digits) \div 2) |->
        16 * HexVal(digits[2 * i - 1]) + HexVal(digits[2 * i])]

starts_with_0x(value) ==
    Len(value) >= 2 /\ value[1] = "0" /\ value[2] = "x"

\* U256::from_str_radix(value, 16): the optional "0x" prefix is stripped, at most
\* 64 digits, an odd number of digits is padded with a leading zero digit
U256_from_hex(value) ==
    LET v == IF starts_with_0x(value) THEN SubSeq(value, 3, Len(value)) ELSE value
        e == IF Len(v) % 2 = 0 THEN v ELSE << "0" >> \o v
    IN  IF Len(v) > 64 THEN Err("Invalid number")
        ELSE IF \E i \in 1..Len(v) : HexVal(v[i]) = -1 THEN Err("Invalid number")
        ELSE Ok(Zeros(32 - (Len(e) \div 2)) \o hex_decode(e))

\* a * m + d on a 32-byte big-endian integer, with the carry out of the top byte
RECURSIVE MulAddFrom(_, _, _, _, _)
MulAddFrom(a, m, i, carry, acc) ==
    IF i = 0 THEN [val |-> acc, carry |-> carry]
    ELSE LET t == a[i] * m + carry
         IN  MulAddFrom(a, m, i - 1, t \div 256, << t % 256 >> \o acc)

\* U256::from_dec_str: res = res * 10 + digit for every character in order, an
\* error on a character that is no digit and on overflow of 256 bits; "" parses
\* to 0.  The characters lo..hi are folded in two halves, left half first.
RECURSIVE DecFrom(_, _, _, _)
DecFrom(value, lo, hi, res) ==
    IF lo > hi THEN Ok(res)
    ELSE IF lo = hi
    THEN IF DecVal(value[lo]) = -1 THEN Err("Invalid number")
         ELSE LET r == MulAddFrom(res, 10, 32, DecVal(value[lo]), << >>)
              IN  IF r.carry > 0 THEN Err("Invalid number") ELSE Ok(r.val)
    ELSE LET mid == (lo + hi) \div 2
             left == DecFrom(value, lo, mid, res)
         IN  IF ~left.ok THEN left ELSE DecFrom(value, mid + 1, hi, left.val)

U256_from_dec_str(value) == DecFrom(value, 1, Len(value), Zeros(32))

\* Convert the U256 value to a byte array in big-endian format
from_u256(value) ==
    IF starts_with_0x(value) THEN U256_from_hex(value)
    ELSE U256_from_dec_str(value)

\* Fr::deserialize_uncompressed: 32 little-endian bytes read from the front of the
\* buffer, rejected when the integer is not below the scalar field modulus.  The
\* field element is held as its 32-byte big-endian value.
Fr_deserialize(buf) ==
    IF Len(buf) < 32 THEN Err("SerializationError")
    ELSE LET v == Reverse(SubSeq(buf, 1, 32))
         IN  IF LtBE(v, FrModulus) THEN Ok(v) ELSE Err("SerializationError")

\* Deserialize a scalar field from bytes in big-endian format
fr_from_bytes(scalar) == Fr_deserialize(Reverse(scalar))

\* a plausible slip: the digest split without reversing its bytes first
split_digest_unreversed(d) ==
    LET big_endian == d
        middle == Len(big_endian) \div 2
        a == SubSeq(big_endian, 1, middle)
        b == SubSeq(big_endian, middle + 1, Len(big_endian))
        ua == from_u256(<< "0", "x" >> \o hex_encode(a))
        ub == from_u256(<< "0", "x" >> \o hex_encode(b))
        fa == IF ua.ok THEN fr_from_bytes(ua.val) ELSE ua
        fb == IF ub.ok THEN fr_from_bytes(ub.val) ELSE ub
    IN  IF ~fa.ok THEN Err(fa.err)
        ELSE IF ~fb.ok THEN Err(fb.err)
        ELSE Ok(<< fa.val, fb.val >>)

\* Splits the digest in half returning a scalar field for each
split_digest(d) ==
    LET big_endian == Reverse(d)
        middle == Len(big_endian) \div 2
        a == SubSeq(big_endian, 1, middle)
        b == SubSeq(big_endian, middle + 1, Len(big_endian))
        ua == from_u256(<< "0", "x" >> \o hex_encode(a))
        ub == from_u256(<< "0", "x" >> \o hex_encode(b))
        fa == IF ua.ok THEN fr_from_bytes(ua.val) ELSE ua
        fb == IF ub.ok THEN fr_from_bytes(ub.val) ELSE ub
    IN  IF ~fa.ok THEN Err(fa.err)
        ELSE IF ~fb.ok THEN Err(fb.err)
        ELSE Ok(<< fa.val, fb.val >>)

-----------------------------------------------------------------------------
(* The pairing library: points, wire format, Groth16 arithmetic *)

\* Big-endian coordinates of k*G in G1, k = 1..4 (point 0 is the point at infinity)
G1X == << G1x1, G1x2, G1x3, G1x4 >>
G1Y == << G1y1, G1y2, G1y3, G1y4 >>

\* Big-endian coordinates of k*G2 in G2: x = x0 + x1*u, y = y0 + y1*u
G2X0 == << G2x0_1, G2x0_2, G2x0_3, G2x0_4 >>
G2X1 == << G2x1_1, G2x1_2, G2x1_3, G2x1_4 >>
G2Y0 == << G2y0_1, G2y0_2, G2y0_3, G2y0_4 >>
G2Y1 == << G2y1_1, G2y1_2, G2y1_3, G2y1_4 >>

\* A point is its index in the table; the indices add modulo GroupOrder
GroupOrder == Len(G1X) + 1
Points == 0..(GroupOrder - 1)

\* little-endian field element with the flag bits added to its top byte
WithFlags(le, flags) == [le EXCEPT ![Len(le)] = @ + flags]

\* SWFlags of a finite point: bit 7 when y > -y
G1Flags(k) == IF LtBE(FqHalf, G1Y[k]) THEN 128 ELSE 0
G2Flags(k) ==
    IF G2Y1[k] # Zeros(32)
    THEN (IF LtBE(FqHalf, G2Y1[k]) THEN 128 ELSE 0)
    ELSE (IF LtBE(FqHalf, G2Y0[k]) THEN 128 ELSE 0)

\* G1Affine::serialize_uncompressed: x, then y with the flags, little-endian;
\* the point at infinity is all zero with bit 6 of the last byte
G1_serialize(k) ==
    IF k = 0 THEN Zeros(63) \o << 64 >>
    ELSE Reverse(G1X[k]) \o WithFlags(Reverse(G1Y[k]), G1Flags(k))

G2_serialize(k) ==
    IF k = 0 THEN Zeros(127) \o << 64 >>
    ELSE Reverse(G2X0[k]) \o Reverse(G2X1[k]) \o Reverse(G2Y0[k])
         \o WithFlags(Reverse(G2Y1[k]), G2Flags(k))

\* a little-endian base field element without flag bits is canonical
FqCanonical(le) == LtBE(Reverse(le), FqModulus)

\* G1Affine::deserialize_uncompressed: reads 64 bytes from the front of the
\* buffer; the two top bits of the last byte are flags; with validation the
\* point must be on the curve and in the subgroup (here: in the table)
G1_deserialize(buf) ==
    IF Len(buf) < 64 THEN Err("SerializationError")
    ELSE LET xb == SubSeq(buf, 1, 32)
             yf == SubSeq(buf, 33, 64)
             flags == yf[32] \div 64
             yb == [yf EXCEPT ![32] = @ % 64]
         IN  IF ~FqCanonical(xb) \/ ~FqCanonical(yb) \/ flags = 3
             THEN Err("SerializationError")
             ELSE IF flags = 1 THEN Ok(0)
             ELSE IF \E k \in 1..Len(G1X) :
                        G1X[k] = Reverse(xb) /\ G1Y[k] = Reverse(yb)
             THEN Ok(CHOOSE k \in 1..Len(G1X) :
                        G1X[k] = Reverse(xb) /\ G1Y[k] = Reverse(yb))
             ELSE Err("SerializationError")

G2_deserialize(buf) ==
    IF Len(buf) < 128 THEN Err("SerializationError")
    ELSE LET x0 == SubSeq(buf, 1, 32)
             x1 == SubSeq(buf, 33, 64)
             y0 == SubSeq(buf, 65, 96)
             yf == SubSeq(buf, 97, 128)
             flags == yf[32] \div 64
             y1 == [yf EXCEPT ![32] = @ % 64]
             Is(k) == /\ G2X0[k] = Reverse(x0) /\ G2X1[k] = Reverse(x1)
                      /\ G2Y0[k] = Reverse(y0) /\ G2Y1[k] = Reverse(y1)
         IN  IF \/ ~FqCanonical(x0) \/ ~FqCanonical(x1)
                \/ ~FqCanonical(y0) \/ ~FqCanonical(y1) \/ flags = 3
             THEN Err("SerializationError")
             ELSE IF flags = 1 THEN Ok(0)
             ELSE IF \E k \in 1..Len(G2X0) : Is(k)
             THEN Ok(CHOOSE k \in 1..Len(G2X0) : Is(k))
             ELSE Err("SerializationError")

\* Proof::serialize_uncompressed / deserialize_uncompressed: a, b, c in order
Proof_serialize(p) == G1_serialize(p.a) \o G2_serialize(p.b) \o G1_serialize(p.c)

Proof_deserialize(buf) ==
    IF Len(buf) < 256 THEN Err("SerializationError")
    ELSE LET a == G1_deserialize(SubSeq(buf, 1, 64))
             b == G2_deserialize(SubSeq(buf, 65, 192))
             c == G1_deserialize(SubSeq(buf, 193, 256))
         IN  IF a.ok /\ b.ok /\ c.ok
             THEN Ok([a |-> a.val, b |-> b.val, c |-> c.val])
             ELSE Err("SerializationError")

\* concatenation of the serialized points of a sequence
RECURSIVE G1_serialize_all(_)
G1_serialize_all(ps) ==
    IF ps = << >> THEN << >>
    ELSE G1_serialize(Head(ps)) \o G1_serialize_all(Tail(ps))

\* PreparedVerifyingKey::serialize_uncompressed: the key's points in order, the
\* vector gamma_abc_g1 preceded by its length as a little-endian u64 (the
\* precomputed pairing values, functions of these points, are left out)
PVK_serialize(k) ==
    G1_serialize(k.alpha_g1) \o G2_serialize(k.beta_g2) \o G2_serialize(k.gamma_g2)
    \o G2_serialize(k.delta_g2)
    \o << Len(k.gamma_abc_g1) >> \o Zeros(7) \o G1_serialize_all(k.gamma_abc_g1)

PVK_deserialize(buf) ==
    IF Len(buf) < 456 THEN Err("SerializationError")
    ELSE LET alpha == G1_deserialize(SubSeq(buf, 1, 64))
             beta == G2_deserialize(SubSeq(buf, 65, 192))
             gamma == G2_deserialize(SubSeq(buf, 193, 320))
             delta == G2_deserialize(SubSeq(buf, 321, 448))
             n == buf[449]
             abc == [i \in 1..n |->
                        G1_deserialize(SubSeq(buf, 393 + 64 * i, 456 + 64 * i))]
         IN  IF /\ alpha.ok /\ beta.ok /\ gamma.ok /\ delta.ok
                /\ SubSeq(buf, 450, 456) = Zeros(7)
                /\ Len(buf) >= 456 + 64 * n
                /\ \A i \in 1..n : abc[i].ok
             THEN Ok([alpha_g1 |-> alpha.val, beta_g2 |-> beta.val,
                      gamma_g2 |-> gamma.val, delta_g2 |-> delta.val,
                      gamma_abc_g1 |-> [i \in 1..n |-> abc[i].val]])
             ELSE Err("SerializationError")

\* sum of input[i] * gamma_abc_g1[i + 1]
RECURSIVE InputSum(_, _, _)
InputSum(abc, inputs, i) ==
    IF i > Len(inputs) THEN 0
    ELSE (ModBE(inputs[i], GroupOrder) * abc[i + 1] + InputSum(abc, inputs, i + 1))
         % GroupOrder

\* Groth16::prepare_inputs: gamma_abc_g1[0] + sum of input[i] * gamma_abc_g1[i + 1],
\* an error when the number of inputs does not fit the key
prepare_inputs(k, public_inputs) ==
    IF Len(public_inputs) + 1 # Len(k.gamma_abc_g1)
    THEN Err("MalformedVerifyingKey")
    ELSE Ok((k.gamma_abc_g1[1] + InputSum(k.gamma_abc_g1, public_inputs, 1))
            % GroupOrder)

\* Groth16::verify_proof_with_prepared_inputs: the pairing equation
\* e(A, B) = e(alpha, beta) * e(prepared_inputs, gamma) * e(C, delta)
verify_proof_with_prepared_inputs(k, proof, prepared) ==
    (proof.a * proof.b) % GroupOrder
        = (k.alpha_g1 * k.beta_g2 + prepared * k.gamma_g2 + proof.c * k.delta_g2)
          % GroupOrder

\* sha2::Sha256 over the bytes fed to it, modelled by a 32-byte checksum: byte j
\* is the position-weighted sum of the bytes at the positions congruent to j
Sha256(bytes) ==
    LET n == Len(bytes)
        RECURSIVE Sum(_, _)
        Sum(j, i) == IF i > n THEN n % 256
                     ELSE (bytes[i] * (1 + ((i \div 32) % 7)) + Sum(j, i + 32)) % 256
    IN  [j \in 1..32 |-> Sum(j, j)]

-----------------------------------------------------------------------------
(* CurvePointCodec *)

\* what a decoder hands to the library's deserializer: nothing, or one buffer
NotHanded == << >>
Handed(buf) == << buf >>

Decoded(r, buf) == [ok |-> r.ok, val |-> r.val, err |-> r.err, buf |-> Handed(buf)]
Refused(e) == [ok |-> FALSE, val |-> << >>, err |-> e, buf |-> NotHanded]

\* a plausible slip: the converter's "at least two" test used for the seal too
g1_shape_atleast(elem) == Len(elem) >= 2

\* a plausible slip: the width of each coordinate validated as well
g1_shape_strict(elem) == Len(elem) = 2 /\ Len(elem[1]) = 32 /\ Len(elem[2]) = 32

\* elem.len() != 2 is refused
g1_shape_ok(elem) == Len(elem) = 2

\* elem[0].iter().rev().chain(elem[1].iter().rev()).cloned().collect()
g1_buffer(elem) == Reverse(elem[1]) \o Reverse(elem[2])

\* Deserialize an element over the G1 group from bytes in big-endian format
g1_from_bytes(elem) ==
    IF ~g1_shape_ok(elem) THEN Refused("Malformed G1 field element")
    ELSE Decoded(G1_deserialize(g1_buffer(elem)), g1_buffer(elem))

\* elem.len() != 2 || elem[0].len() != 2 || elem[1].len() != 2 is refused
g2_shape_ok(elem) ==
    Len(elem) = 2 /\ Len(elem[1]) = 2 /\ Len(elem[2]) = 2

\* a plausible slip: the components of each pair chained in index order
g2_buffer_unswapped(elem) ==
    Reverse(elem[1][1]) \o Reverse(elem[1][2])
    \o Reverse(elem[2][1]) \o Reverse(elem[2][2])

\* elem[0][1], elem[0][0], elem[1][1], elem[1][0], each reversed, chained
g2_buffer(elem) ==
    Reverse(elem[1][2]) \o Reverse(elem[1][1])
    \o Reverse(elem[2][2]) \o Reverse(elem[2][1])

\* Deserialize an element over the G2 group from bytes in big-endian format
g2_from_bytes(elem) ==
    IF ~g2_shape_ok(elem) THEN Refused("Malformed G2 field element")
    ELSE Decoded(G2_deserialize(g2_buffer(elem)), g2_buffer(elem))

-----------------------------------------------------------------------------
(* SealConverter: impl TryFrom<RawProof> for Groth16Seal *)

\* a plausible slip: the inner pairs copied in the raw order
converted_b_unswapped(b00, b01, b10, b11) == << << b00, b01 >>, << b10, b11 >> >>

\* the b field of the converted seal: each inner pair of pi_b with its two
\* entries exchanged
converted_b(b00, b01, b10, b11) == << << b01, b00 >>, << b11, b10 >> >>

\* a plausible slip: exactly two entries demanded
too_few_exact(list) == Len(list) # 2

\* raw_proof.pi_a.len() < 2, and likewise for pi_b, its inner lists and pi_c
too_few(list) == Len(list) < 2

try_from(raw_proof) ==
    IF too_few(raw_proof.pi_a) THEN Err("Malformed G1 element field")
    ELSE
    LET a0 == from_u256(raw_proof.pi_a[1])
        a1 == from_u256(raw_proof.pi_a[2])
    IN
    IF ~a0.ok THEN Err(a0.err)
    ELSE IF ~a1.ok THEN Err(a1.err)
    ELSE IF \/ too_few(raw_proof.pi_b)
            \/ too_few(raw_proof.pi_b[1])
            \/ too_few(raw_proof.pi_b[2])
    THEN Err("Malformed G2 element field")
    ELSE
    LET b01 == from_u256(raw_proof.pi_b[1][2])
        b00 == from_u256(raw_proof.pi_b[1][1])
        b11 == from_u256(raw_proof.pi_b[2][2])
        b10 == from_u256(raw_proof.pi_b[2][1])
    IN
    IF ~b01.ok THEN Err(b01.err)
    ELSE IF ~b00.ok THEN Err(b00.err)
    ELSE IF ~b11.ok THEN Err(b11.err)
    ELSE IF ~b10.ok THEN Err(b10.err)
    ELSE IF too_few(raw_proof.pi_c) THEN Err("Malformed G1 element field")
    ELSE
    LET c0 == from_u256(raw_proof.pi_c[1])
        c1 == from_u256(raw_proof.pi_c[2])
    IN
    IF ~c0.ok THEN Err(c0.err)
    ELSE IF ~c1.ok THEN Err(c1.err)
    ELSE Ok([a |-> << a0.val, a1.val >>,
             b |-> converted_b(b00.val, b01.val, b10.val, b11.val),
             c |-> << c0.val, c1.val >>,
             public |-> << >>])

-----------------------------------------------------------------------------
(* VerifyingKeyProvider *)

\* pvk::pvk(): the prepared verifying key of the embedded parameter set, a
\* circuit with four public inputs
pvk ==
    Ok([alpha_g1 |-> 2, beta_g2 |-> 1, gamma_g2 |-> 2, delta_g2 |-> 3,
        gamma_abc_g1 |-> << 1, 1, 2, 3, 4 >>])

\* RawVKey::pvk(): the prepared key of a caller-supplied key, or an error
raw_vk_pvk(raw_vk) ==
    IF raw_vk.valid THEN Ok(raw_vk.key) ELSE Err("Invalid verifying key")

\* RawPublic::public_inputs(): every public signal as a scalar field element
RECURSIVE public_inputs_from(_, _, _)
public_inputs_from(values, i, acc) ==
    IF i > Len(values) THEN Ok(acc)
    ELSE LET u == from_u256(values[i])
             f == IF u.ok THEN fr_from_bytes(u.val) ELSE u
         IN  IF ~f.ok THEN Err(f.err)
             ELSE public_inputs_from(values, i + 1, Append(acc, f.val))

raw_public_inputs(raw_public) == public_inputs_from(raw_public.values, 1, << >>)

-----------------------------------------------------------------------------
(* Groth16 instance *)

\* Digest::from_hex: exactly 64 hexadecimal digits
Digest_from_hex(s) ==
    IF Len(s) # 64 \/ \E i \in 1..Len(s) : HexVal(s[i]) = -1
    THEN Err("Invalid hex") ELSE Ok(hex_decode(s))

NoInst == [pvk |-> << >>, proof |-> << >>, prepared_inputs |-> << >>]
NoHanded == [a |-> NotHanded, b |-> NotHanded, c |-> NotHanded,
             public_inputs |-> NotHanded, seal |-> NotHanded]

Fail(e, h) == [ok |-> FALSE, err |-> e, self |-> NoInst, handed |-> h]

\* a plausible slip: the halves in the order split_digest produces them
public_input_vector_produced(c, m) == << c[1], c[2], m[1], m[2] >>

\* let public_inputs = vec![c2, c1, m2, m1]
public_input_vector(c, m) == << c[2], c[1], m[2], m[1] >>

\* a plausible slip: a digest carried in the seal's public field replaces the root
seal_public_inputs_override(groth16_seal, receipt_meta) ==
    LET root == IF groth16_seal.public # << >> THEN Ok(groth16_seal.public[1])
                ELSE Digest_from_hex(ALLOWED_IDS_ROOT)
        c == IF root.ok THEN split_digest(root.val) ELSE root
        m == split_digest(receipt_meta)
    IN  IF ~c.ok THEN Err(c.err)
        ELSE IF ~m.ok THEN Err(m.err)
        ELSE Ok(public_input_vector(c.val, m.val))

\* the public inputs of from_seal: the halves of the embedded root and of the
\* metadata digest; nothing of the seal is read
seal_public_inputs(groth16_seal, receipt_meta) ==
    LET root == Digest_from_hex(ALLOWED_IDS_ROOT)
        c == IF root.ok THEN split_digest(root.val) ELSE root
        m == split_digest(receipt_meta)
    IN  IF ~c.ok THEN Err(c.err)
        ELSE IF ~m.ok THEN Err(m.err)
        ELSE Ok(public_input_vector(c.val, m.val))

\* a plausible slip: two buffers stored in each other's field
new_instance_swapped(pvk_bytes, proof_bytes, prepared_inputs_bytes) ==
    [pvk |-> pvk_bytes, proof |-> prepared_inputs_bytes,
     prepared_inputs |-> proof_bytes]

\* Ok(Self { pvk: pvk_bytes, proof: proof_bytes, prepared_inputs: ... })
new_instance(pvk_bytes, proof_bytes, prepared_inputs_bytes) ==
    [pvk |-> pvk_bytes, proof |-> proof_bytes,
     prepared_inputs |-> prepared_inputs_bytes]

\* the proof part of both constructors: a, b, c decoded in this order, each
\* failure returned at once
decode_proof(seal, h) ==
    LET a == g1_from_bytes(seal.a)
        b == g2_from_bytes(seal.b)
        c == g1_from_bytes(seal.c)
        ha == [h EXCEPT !.a = a.buf]
        hb == [ha EXCEPT !.b = b.buf]
        hc == [hb EXCEPT !.c = c.buf]
    IN  IF ~a.ok THEN [ok |-> FALSE, err |-> a.err, val |-> << >>, handed |-> ha]
        ELSE IF ~b.ok THEN [ok |-> FALSE, err |-> b.err, val |-> << >>, handed |-> hb]
        ELSE IF ~c.ok THEN [ok |-> FALSE, err |-> c.err, val |-> << >>, handed |-> hc]
        ELSE [ok |-> TRUE, err |-> "", handed |-> hc,
              val |-> [a |-> a.val, b |-> b.val, c |-> c.val]]

\* Creates a Groth16 instance from a Groth16Seal and the metadata digest of the
\* original RISC Zero receipt
from_seal(groth16_seal, receipt_meta) ==
    LET public_key_verification == pvk
        proof == decode_proof(groth16_seal, NoHanded)
        public_inputs == seal_public_inputs(groth16_seal, receipt_meta)
        h == [proof.handed EXCEPT !.public_inputs = Handed(public_inputs.val)]
        prepared_inputs == prepare_inputs(public_key_verification.val,
                                          public_inputs.val)
    IN  IF ~public_key_verification.ok
        THEN Fail(public_key_verification.err, NoHanded)
        ELSE IF ~proof.ok THEN Fail(proof.err, proof.handed)
        ELSE IF ~public_inputs.ok THEN Fail(public_inputs.err, proof.handed)
        ELSE IF ~prepared_inputs.ok THEN Fail(prepared_inputs.err, h)
        ELSE [ok |-> TRUE, err |-> "", handed |-> h,
              self |-> new_instance(PVK_serialize(public_key_verification.val),
                                    Proof_serialize(proof.val),
                                    G1_serialize(prepared_inputs.val))]

\* Creates a Groth16 instance from the raw material generated by Circom/SnarkJS
from_raw(raw_vk, raw_proof, raw_public) ==
    LET public_key_verification == raw_vk_pvk(raw_vk)
        groth16_seal == try_from(raw_proof)
        hs == [NoHanded EXCEPT !.seal = Handed(groth16_seal)]
        proof == decode_proof(groth16_seal.val, hs)
        public_inputs == raw_public_inputs(raw_public)
        h == [proof.handed EXCEPT !.public_inputs = Handed(public_inputs.val)]
        prepared_inputs == prepare_inputs(public_key_verification.val,
                                          public_inputs.val)
    IN  IF ~public_key_verification.ok
        THEN Fail(public_key_verification.err, NoHanded)
        ELSE IF ~groth16_seal.ok THEN Fail(groth16_seal.err, hs)
        ELSE IF ~proof.ok THEN Fail(proof.err, proof.handed)
        ELSE IF ~public_inputs.ok THEN Fail(public_inputs.err, proof.handed)
        ELSE IF ~prepared_inputs.ok THEN Fail(prepared_inputs.err, h)
        ELSE [ok |-> TRUE, err |-> "", handed |-> h,
              self |-> new_instance(PVK_serialize(public_key_verification.val),
                                    Proof_serialize(proof.val),
                                    G1_serialize(prepared_inputs.val))]

\* a plausible slip: the proof buffer is drained by the read
verify_draining(self) ==
    LET k == PVK_deserialize(self.pvk)
        proof == Proof_deserialize(self.proof)
        prepared_inputs == G1_deserialize(self.prepared_inputs)
    IN  [self |-> [self EXCEPT !.proof = << >>],
         result |->
            IF ~k.ok \/ ~proof.ok \/ ~prepared_inputs.ok THEN "SerializationError"
            ELSE IF verify_proof_with_prepared_inputs(k.val, proof.val,
                                                      prepared_inputs.val)
            THEN "Ok"
            ELSE "Invalid proof"]

\* Verifies the Groth16 instance.  The method borrows the instance: each buffer
\* is read through a slice of it, and the instance after the call is returned
\* with the result.
verify(self) ==
    LET k == PVK_deserialize(self.pvk)
        proof == Proof_deserialize(self.proof)
        prepared_inputs == G1_deserialize(self.prepared_inputs)
    IN  [self |-> self,
         result |->
            IF ~k.ok \/ ~proof.ok \/ ~prepared_inputs.ok THEN "SerializationError"
            ELSE IF verify_proof_with_prepared_inputs(k.val, proof.val,
                                                      prepared_inputs.val)
            THEN "Ok"
            ELSE "Invalid proof"]

\* Compute the SHA256 digest of the Groth16 instance
digest(self) ==
    [self |-> self,
     result |-> Sha256(self.pvk \o self.proof \o self.prepared_inputs)]

-----------------------------------------------------------------------------
(* Inputs *)

Instances == {1, 2}
Callers == {1, 2}

\* two coordinate arrays that split the 64 bytes of the point (x, y) after n bytes
CoordSplit(x, y, n) ==
    LET buf == Reverse(x) \o Reverse(y)
    IN  << Reverse(SubSeq(buf, 1, n)), Reverse(SubSeq(buf, n + 1, Len(buf))) >>

A_G == << G1x1, G1y1 >>
A_2G == << G1x2, G1y2 >>
A_2G_31_33 == CoordSplit(G1x2, G1y2, 31)
A_3G == << G1x3, G1y3 >>
A_inf == << Zeros(32), << 64 >> \o Zeros(31) >>
A_long == << G1x1, << 7 >> \o G1y1 >>
A_three == << G1x1, G1y1, G1x1 >>
A_one == << G1x1 >>
A_off == << G1x1, G1x1 >>
A_off_40_24 == CoordSplit(G1x1, G1x1, 40)
A_short == << G1x1, << 2 >> >>

\* seal order of a G2 point: [[x1, x0], [y1, y0]]
B_G2 == << << G2x1_1, G2x0_1 >>, << G2y1_1, G2y0_1 >> >>
B_2G2 == << << G2x1_2, G2x0_2 >>, << G2y1_2, G2y0_2 >> >>
B_G2_split == << << G2x1_1 \o SubSeq(G2x0_1, 1, 5), SubSeq(G2x0_1, 6, 32) >>,
                 << G2y1_1, G2y0_1 >> >>
B_unswapped == << << G2x0_1, G2x1_1 >>, << G2y0_1, G2y1_1 >> >>
B_outer1 == << << G2x1_1, G2x0_1 >> >>
B_inner3 == << << G2x1_1, G2x0_1, G2x0_1 >>, << G2y1_1, G2y0_1 >> >>
B_inner1 == << << G2x1_1, G2x0_1 >>, << G2y1_1 >> >>

C_G == << G1x1, G1y1 >>
C_4G == << G1x4, G1y4 >>
C_4G_split == CoordSplit(G1x4, G1y4, 33)
C_off == << G1y1, G1x1 >>
C_none == << >>

MetaUp == [i \in 1..32 |-> i]
MetaDown == [i \in 1..32 |-> 255 - 3 * i]

SealAs == {A_G, A_2G_31_33, A_3G, A_inf, A_long, A_three, A_one, A_off, A_short}
SealBs == {B_G2, B_2G2, B_unswapped, B_outer1, B_inner3, B_inner1}
SealCs == {C_G, C_4G, C_off, C_none}
SealPublics == {<< >>, << MetaUp >>}
Metas == {MetaUp, MetaDown}

Seals == [a : SealAs, b : SealBs, c : SealCs, public : SealPublics]

\* the seals of the two-instance specification
PairSeals ==
    [a : {A_G, A_2G, A_2G_31_33, A_off, A_off_40_24}, b : {B_G2, B_G2_split},
     c : {C_4G, C_4G_split}, public : SealPublics]

S0 == << "0" >>
S1 == << "1" >>
S2 == << "2" >>
S7 == << "7" >>
SHex1 == << "0", "x", "1" >>
SHex02 == << "0", "x", "0", "2" >>
SBad == << "2", "x" >>

PiAs == { << S1, S2, S1 >>, << SHex1, SHex02 >>, << S1 >>, << S1, SBad >>,
          << S1, S1, S1 >> }
PiBs == { << << StrG2x0Dec, StrG2x1Hex >>, << StrG2y0Hex, StrG2y1Hex >>, << S1, S0 >> >>,
          << << StrG2bx0Hex, StrG2bx1Hex, S1 >>, << StrG2by0Hex, StrG2by1Hex >>,
             << S1 >> >>,
          << << StrG2x1Hex, StrG2x0Dec >>, << StrG2y1Hex, StrG2y0Hex >> >>,
          << << StrG2x0Dec, StrG2x1Hex >> >>,
          << << StrG2x0Dec >>, << StrG2y0Hex, StrG2y1Hex >> >>,
          << << StrG2x0Dec, StrTooBigDec >>, << StrG2y0Hex, StrG2y1Hex >> >> }
PiCs == { << S1, S2, S1 >>, << StrG1x2Hex, StrG1y2Dec >>, << S1 >> }

RawProofs == [pi_a : PiAs, pi_b : PiBs, pi_c : PiCs]

RawKey == [alpha_g1 |-> 1, beta_g2 |-> 2, gamma_g2 |-> 1, delta_g2 |-> 1,
           gamma_abc_g1 |-> << 2, 1, 3 >>]
RawVKeys == [valid : BOOLEAN, key : {RawKey}]

RawPublics == [values : { << S1, S2 >>, << SHex02, S7 >>, << S1 >>,
                          << S1, StrMaxDec >>, << SBad, S1 >> }]

\* digests for split_digest: one byte v at position p in a digest of bytes f
Digests ==
    { [i \in 1..32 |-> IF i = p THEN v ELSE f] :
        p \in 1..32, v \in {1, 128, 255}, f \in {0, 255} }
    \cup {MetaUp, MetaDown}

-----------------------------------------------------------------------------
(* State machine *)

NoInput == [ctor |-> "none", seal |-> << >>, receipt_meta |-> << >>,
            raw_vk |-> << >>, raw_proof |-> << >>, raw_public |-> << >>]
NotCalled == [ok |-> FALSE, val |-> << >>, err |-> "not called"]

Init ==
    /\ input = [i \in Instances |-> NoInput]
    /\ outcome = [i \in Instances |-> "none"]
    /\ inst = [i \in Instances |-> NoInst]
    /\ handed = [i \in Instances |-> NoHanded]
    /\ verified = [c \in Callers |-> "none"]
    /\ digested = [c \in Callers |-> << >>]
    /\ first = [verify |-> "none", digest |-> << >>, built |-> NoInst]
    /\ sd_in = << >>
    /\ sd_out = NotCalled

Constructed(i, in, r) ==
    /\ input' = [input EXCEPT ![i] = in]
    /\ outcome' = [outcome EXCEPT ![i] = IF r.ok THEN "ok" ELSE r.err]
    /\ inst' = [inst EXCEPT ![i] = r.self]
    /\ handed' = [handed EXCEPT ![i] = r.handed]
    /\ first' = IF i = 1 THEN [first EXCEPT !.built = r.self] ELSE first
    /\ UNCHANGED << verified, digested, sd_in, sd_out >>

\* Groth16::from_seal(&seal, receipt_meta) builds instance i
FromSealOf(i, seals) ==
    /\ outcome[i] = "none"
    /\ \E seal \in seals, meta \in Metas :
          Constructed(i, [NoInput EXCEPT !.ctor = "from_seal", !.seal = seal,
                                         !.receipt_meta = meta],
                      from_seal(seal, meta))

FromSeal == FromSealOf(1, Seals)

\* Groth16::from_raw(raw_vk, raw_proof, raw_public) builds instance 1
FromRaw ==
    /\ outcome[1] = "none"
    /\ \E vk \in RawVKeys, p \in RawProofs, pub \in RawPublics :
          Constructed(1, [NoInput EXCEPT !.ctor = "from_raw", !.raw_vk = vk,
                                         !.raw_proof = p, !.raw_public = pub],
                      from_raw(vk, p, pub))

\* caller c calls verify() on instance 1
Verify(c) ==
    /\ outcome[1] = "ok"
    /\ LET r == verify(inst[1])
       IN  /\ verified' = [verified EXCEPT ![c] = r.result]
           /\ inst' = [inst EXCEPT ![1] = r.self]
           /\ first' = IF first.verify = "none"
                       THEN [first EXCEPT !.verify = r.result] ELSE first
    /\ UNCHANGED << input, outcome, handed, digested, sd_in, sd_out >>

\* caller c calls digest() on instance 1
Digest(c) ==
    /\ outcome[1] = "ok"
    /\ LET r == digest(inst[1])
       IN  /\ digested' = [digested EXCEPT ![c] = r.result]
           /\ inst' = [inst EXCEPT ![1] = r.self]
           /\ first' = IF first.digest = << >>
                       THEN [first EXCEPT !.digest = r.result] ELSE first
    /\ UNCHANGED << input, outcome, handed, verified, sd_in, sd_out >>

Next ==
    \/ FromSeal
    \/ FromRaw
    \/ \E c \in Callers : Verify(c)
    \/ \E c \in Callers : Digest(c)

Spec == Init /\ [][Next]_vars

\* Two instances built by from_seal, the first before the second
FromSealFirst == FromSealOf(1, PairSeals)

FromSealSecond == outcome[1] # "none" /\ FromSealOf(2, PairSeals)

NextPair == FromSealFirst \/ FromSealSecond

SpecPair == Init /\ [][NextPair]_vars

\* split_digest applied to one digest
InitSplit ==
    /\ input = [i \in Instances |-> NoInput]
    /\ outcome = [i \in Instances |-> "none"]
    /\ inst = [i \in Instances |-> NoInst]
    /\ handed = [i \in Instances |-> NoHanded]
    /\ verified = [c \in Callers |-> "none"]
    /\ digested = [c \in Callers |-> << >>]
    /\ first = [verify |-> "none", digest |-> << >>, built |-> NoInst]
    /\ sd_in \in Digests
    /\ sd_out = NotCalled

SplitDigest ==
    /\ sd_out = NotCalled
    /\ sd_out' = split_digest(sd_in)
    /\ UNCHANGED << input, outcome, inst, handed, verified, digested, first,
                    sd_in >>

SpecSplit == InitSplit /\ [][SplitDigest]_vars

-----------------------------------------------------------------------------
(* Properties *)

Structural == {"Malformed G1 field element", "Malformed G2 field element"}

TwoArrays(e) == Len(e) = 2
TwoByTwo(e) == Len(e) = 2 /\ \A j \in 1..2 : Len(e[j]) = 2

\* buf holds the bytes of p in reverse order from offset off on
RevAt(buf, off, p) ==
    /\ Len(buf) >= off + Len(p)
    /\ \A j \in 1..Len(p) : buf[off + j] = p[Len(p) + 1 - j]

\* the reversed coordinate arrays of a point, concatenated in decoding order
RevCat(parts) ==
    LET RECURSIVE Cat(_)
        Cat(i) == IF i > Len(parts) THEN << >>
                  ELSE [j \in 1..Len(parts[i]) |-> parts[i][Len(parts[i]) + 1 - j]]
                       \o Cat(i + 1)
    IN  Cat(1)

G1Bytes(e) == RevCat(<< e[1], e[2] >>)
G2Bytes(e) == RevCat(<< e[1][2], e[1][1], e[2][2], e[2][1] >>)

\* the 32-byte big-endian parse of a numeric string
P(s) == from_u256(s).val

BySeal(i) == input[i].ctor = "from_seal"
ByRaw(i) == input[i].ctor = "from_raw"

\* C1 as stated: a seal whose a or c has not 2 arrays, or whose b is not 2x2,
\* makes from_seal fail with a structural error whatever the bytes of the seal.
C1_StructuralWhateverBytes ==
    \A i \in Instances :
        (BySeal(i) /\ ~(/\ TwoArrays(input[i].seal.a) /\ TwoByTwo(input[i].seal.b)
                        /\ TwoArrays(input[i].seal.c)))
        => outcome[i] \in Structural

\* C1 amended: a misshapen seal always makes from_seal fail; it fails with the
\* structural error of the first misshapen point in the order a, b, c when
\* every point before it decodes, and with the decoding error of the first
\* point that does not decode otherwise.
C1_StructuralInDecodingOrder ==
    \A i \in Instances :
        BySeal(i) =>
            LET s == input[i].seal
                okA == G1_deserialize(G1Bytes(s.a)).ok
                okB == G2_deserialize(G2Bytes(s.b)).ok
            IN  /\ ~TwoArrays(s.a) => outcome[i] = "Malformed G1 field element"
                /\ (TwoArrays(s.a) /\ ~TwoByTwo(s.b)) =>
                       outcome[i] = IF okA THEN "Malformed G2 field element"
                                    ELSE "SerializationError"
                /\ (TwoArrays(s.a) /\ TwoByTwo(s.b) /\ ~TwoArrays(s.c)) =>
                       outcome[i] = IF okA /\ okB THEN "Malformed G1 field element"
                                    ELSE "SerializationError"

\* a misshapen b refused as such although the bytes of c are no curve point
C1_Witness ==
    /\ BySeal(1) /\ input[1].seal.b = B_inner3 /\ input[1].seal.c = C_off
    /\ outcome[1] = "Malformed G2 field element"

\* C2: from_seal passes to prepare_inputs exactly [c2, c1, m2, m1], where
\* (c1, c2) = split_digest(ALLOWED_IDS_ROOT) and (m1, m2) = split_digest(meta).
C2_PublicInputOrder ==
    \A i \in Instances :
        BySeal(i) =>
            LET c == split_digest(hex_decode(ALLOWED_IDS_ROOT)).val
                m == split_digest(input[i].receipt_meta).val
            IN  /\ outcome[i] = "ok" => handed[i].public_inputs # NotHanded
                /\ handed[i].public_inputs # NotHanded =>
                       handed[i].public_inputs = << << c[2], c[1], m[2], m[1] >> >>

C2_Witness ==
    /\ BySeal(1) /\ outcome[1] = "ok" /\ input[1].receipt_meta = MetaDown
    /\ Cardinality({handed[1].public_inputs[1][j] : j \in 1..4}) = 4

\* C3: split_digest(d) succeeds for every 32-byte digest; the first element is
\* the big-endian reading of d[31], ..., d[16], the second that of d[15], ...,
\* d[0]; both are below 2^128 (their upper 16 bytes are zero).
C3_SplitDigest ==
    sd_out # NotCalled =>
        /\ sd_out.ok
        /\ sd_out.val = << Zeros(16) \o [j \in 1..16 |-> sd_in[33 - j]],
                           Zeros(16) \o [j \in 1..16 |-> sd_in[17 - j]] >>

C3_Witness == sd_in = MetaUp /\ sd_out.ok /\ sd_out.val[1] # sd_out.val[2]

\* the seal whose points the constructor of instance i decodes
DecodedSeal(i) ==
    IF BySeal(i) THEN input[i].seal ELSE handed[i].seal[1].val

\* C4: the buffer handed to the deserializer is reverse(c0) ++ reverse(c1) for
\* a G1 point [c0, c1] and reverse(c01) ++ reverse(c00) ++ reverse(c11) ++
\* reverse(c10) for a G2 point [[c00, c01], [c10, c11]].
C4_HandedBuffers ==
    \A i \in Instances :
        LET s == DecodedSeal(i)
            h == handed[i]
        IN  /\ h.a # NotHanded =>
                  /\ Len(h.a[1]) = Len(s.a[1]) + Len(s.a[2])
                  /\ RevAt(h.a[1], 0, s.a[1])
                  /\ RevAt(h.a[1], Len(s.a[1]), s.a[2])
            /\ h.b # NotHanded =>
                  /\ Len(h.b[1]) = Len(s.b[1][1]) + Len(s.b[1][2])
                                   + Len(s.b[2][1]) + Len(s.b[2][2])
                  /\ RevAt(h.b[1], 0, s.b[1][2])
                  /\ RevAt(h.b[1], Len(s.b[1][2]), s.b[1][1])
                  /\ RevAt(h.b[1], Len(s.b[1][2]) + Len(s.b[1][1]), s.b[2][2])
                  /\ RevAt(h.b[1], Len(s.b[1][2]) + Len(s.b[1][1]) + Len(s.b[2][2]),
                           s.b[2][1])
            /\ h.c # NotHanded =>
                  /\ Len(h.c[1]) = Len(s.c[1]) + Len(s.c[2])
                  /\ RevAt(h.c[1], 0, s.c[1])
                  /\ RevAt(h.c[1], Len(s.c[1]), s.c[2])
            /\ (BySeal(i) /\ TwoArrays(s.a)) => h.a # NotHanded
            /\ (outcome[i] = "ok") =>
                  h.a # NotHanded /\ h.b # NotHanded /\ h.c # NotHanded

C4_Witness ==
    /\ BySeal(1) /\ outcome[1] = "ok"
    /\ input[1].seal.a = A_2G_31_33 /\ input[1].seal.b = B_2G2
    /\ handed[1].b # NotHanded /\ handed[1].c # NotHanded

\* C5: the conversion of a RawProof fails when pi_a, pi_c, pi_b or one of the
\* two inner lists of pi_b it reads has fewer than 2 entries; otherwise, when
\* the strings it reads parse, it yields a = [P(pi_a[0]), P(pi_a[1])],
\* b = [[P(pi_b[0][1]), P(pi_b[0][0])], [P(pi_b[1][1]), P(pi_b[1][0])]],
\* c = [P(pi_c[0]), P(pi_c[1])], public = []; further entries are ignored and
\* the seal has the 2 / 2x2 / 2 shape.
C5_Conversion ==
    (ByRaw(1) /\ handed[1].seal # NotHanded) =>
        LET p == input[1].raw_proof
            r == handed[1].seal[1]
            short == \/ Len(p.pi_a) < 2 \/ Len(p.pi_c) < 2 \/ Len(p.pi_b) < 2
                     \/ Len(p.pi_b[1]) < 2 \/ Len(p.pi_b[2]) < 2
            read == << p.pi_a[1], p.pi_a[2], p.pi_b[1][1], p.pi_b[1][2],
                       p.pi_b[2][1], p.pi_b[2][2], p.pi_c[1], p.pi_c[2] >>
        IN  /\ short => ~r.ok
            /\ (~short /\ \A j \in 1..8 : from_u256(read[j]).ok) =>
                  /\ r.ok
                  /\ r.val.a = << P(p.pi_a[1]), P(p.pi_a[2]) >>
                  /\ r.val.b = << << P(p.pi_b[1][2]), P(p.pi_b[1][1]) >>,
                                  << P(p.pi_b[2][2]), P(p.pi_b[2][1]) >> >>
                  /\ r.val.c = << P(p.pi_c[1]), P(p.pi_c[2]) >>
                  /\ r.val.public = << >>
            /\ r.ok => /\ TwoArrays(r.val.a) /\ TwoByTwo(r.val.b)
                       /\ TwoArrays(r.val.c)
                       /\ \A j \in 1..2 : Len(r.val.a[j]) = 32 /\ Len(r.val.c[j]) = 32

C5_Witness ==
    /\ ByRaw(1) /\ handed[1].seal # NotHanded /\ handed[1].seal[1].ok
    /\ Len(input[1].raw_proof.pi_a) = 3 /\ Len(input[1].raw_proof.pi_b) = 3
    /\ Len(input[1].raw_proof.pi_b[3]) = 1

\* what the constructor of instance 1 serialized
BuiltKey == IF BySeal(1) THEN pvk.val ELSE input[1].raw_vk.key
BuiltProof ==
    [a |-> G1_deserialize(handed[1].a[1]).val,
     b |-> G2_deserialize(handed[1].b[1]).val,
     c |-> G1_deserialize(handed[1].c[1]).val]
BuiltInputs == prepare_inputs(BuiltKey, handed[1].public_inputs[1]).val

\* C6: on an instance returned by from_seal or from_raw the three buffers
\* deserialize to the prepared key, the proof and the prepared-input point the
\* constructor serialized; verify() never fails to deserialize and returns
\* success exactly when the pairing check on these values is true, and
\* "Invalid proof" when it is false.
C6_VerifyDeserializes ==
    outcome[1] = "ok" =>
        /\ PVK_deserialize(inst[1].pvk) = Ok(BuiltKey)
        /\ Proof_deserialize(inst[1].proof) = Ok(BuiltProof)
        /\ G1_deserialize(inst[1].prepared_inputs) = Ok(BuiltInputs)
        /\ \A c \in Callers :
              verified[c] # "none" =>
                  verified[c] =
                      IF verify_proof_with_prepared_inputs(BuiltKey, BuiltProof,
                                                           BuiltInputs)
                      THEN "Ok" ELSE "Invalid proof"

\* a successful verify() of a proof whose stored bytes differ from the bytes
\* handed in (the sign flag of 3G is set by the serializer)
C6_Witness ==
    /\ outcome[1] = "ok" /\ verified[2] = "Ok"
    /\ SubSeq(inst[1].proof, 1, 64) # handed[1].a[1]

\* C7: a constructed instance never changes: after any interleaving of
\* verify() and digest() calls by the callers its buffers are those of
\* construction, every verify() returned what the first returned and every
\* digest() returned the same 32 bytes.
C7_Immutable ==
    outcome[1] = "ok" =>
        /\ inst[1] = first.built
        /\ \A c \in Callers :
              /\ verified[c] \in {"none", first.verify}
              /\ digested[c] \in {<< >>, first.digest}
              /\ digested[c] # << >> => Len(digested[c]) = 32

C7_Witness ==
    /\ verified[1] # "none" /\ verified[2] # "none" /\ digested[2] # << >>

\* C8: two successful from_seal calls with the same receipt_meta have the same
\* prepared_inputs and pvk buffers, whatever a, b, c and public of the seals.
C8_FixedRoot ==
    (/\ BySeal(1) /\ BySeal(2) /\ outcome[1] = "ok" /\ outcome[2] = "ok"
     /\ input[1].receipt_meta = input[2].receipt_meta)
    => /\ inst[1].prepared_inputs = inst[2].prepared_inputs
       /\ inst[1].pvk = inst[2].pvk

C8_Witness ==
    /\ BySeal(1) /\ BySeal(2) /\ outcome[1] = "ok" /\ outcome[2] = "ok"
    /\ input[1].receipt_meta = input[2].receipt_meta
    /\ input[1].seal.public = << >> /\ input[2].seal.public # << >>
    /\ input[1].seal.a # input[2].seal.a
    /\ inst[1].proof # inst[2].proof

\* C9: for a RawProof accepted by from_raw the buffer handed to the G2
\* deserializer is reverse(P(pi_b[0][0])) ++ reverse(P(pi_b[0][1])) ++
\* reverse(P(pi_b[1][0])) ++ reverse(P(pi_b[1][1])).
C9_RawOrderKept ==
    (ByRaw(1) /\ handed[1].b # NotHanded) =>
        LET b == input[1].raw_proof.pi_b
        IN  handed[1].b[1] = RevCat(<< P(b[1][1]), P(b[1][2]), P(b[2][1]), P(b[2][2]) >>)

C9_Witness ==
    /\ ByRaw(1) /\ outcome[1] = "ok"
    /\ input[1].raw_proof.pi_b[1][1] = StrG2x0Dec

\* the two seals are well shaped and their points have the same bytes
SameBytes(s, t) ==
    /\ TwoArrays(s.a) /\ TwoArrays(t.a) /\ G1Bytes(s.a) = G1Bytes(t.a)
    /\ TwoByTwo(s.b) /\ TwoByTwo(t.b) /\ G2Bytes(s.b) = G2Bytes(t.b)
    /\ TwoArrays(s.c) /\ TwoArrays(t.c) /\ G1Bytes(s.c) = G1Bytes(t.c)

\* C10: from_seal does not validate the length of a coordinate: two seals
\* whose points concatenate to the same buffers, with the same receipt_meta,
\* yield the same result and, on success, identical buffers and digest().
C10_SplitIndependent ==
    (/\ BySeal(1) /\ BySeal(2)
     /\ input[1].receipt_meta = input[2].receipt_meta
     /\ SameBytes(input[1].seal, input[2].seal))
    => /\ outcome[1] = outcome[2]
       /\ inst[1] = inst[2]
       /\ digest(inst[1]).result = digest(inst[2]).result

C10_Witness ==
    /\ BySeal(1) /\ BySeal(2) /\ outcome[1] = "ok" /\ outcome[2] = "ok"
    /\ input[1].receipt_meta = input[2].receipt_meta
    /\ SameBytes(input[1].seal, input[2].seal)
    /\ input[1].seal.a = A_2G /\ input[2].seal.a = A_2G_31_33
    /\ input[1].seal.b = B_G2_split /\ input[2].seal.b = B_G2

=============================================================================
